---- MODULE Spec2Model ----
(***************************************************************************)
(* Subscription backend of the Chicken-Chores game server                  *)
(* (src/api-routes.js): create-checkout-session, verify-payment,          *)
(* restore-subscription, the Stripe webhook endpoint, cancel-subscription  *)
(* and the record-store helper updateUserSubscription.                     *)
(*                                                                         *)
(* Every request is an async handler: it runs from one await to the next   *)
(* without interruption, and other requests may run between its awaits.    *)
(* Each action below is one such uninterrupted stretch of a handler: its   *)
(* entry, or its resumption when the call it awaits resolves or rejects.   *)
(* The handlers never read the record store; they only write to it.        *)
(***************************************************************************)
EXTENDS Integers, Sequences, FiniteSets, TLC

\* ------------------------------------------------------------- bounds
MaxEpoch == 1      \* period ends are epoch seconds 1..MaxEpoch
MaxItems == 1      \* subscription items per subscription
MaxReplay == 2     \* consecutive deliveries of one deleted event that are counted
MaxCalcEpoch == 3  \* period ends 1..MaxCalcEpoch of the derivation on its own
MaxCalcItems == 3  \* subscription items of the derivation on its own

\* ------------------------------------------------------ JavaScript values
Undefined == "<undefined>"   \* a property that is not there
Null == "<null>"             \* JavaScript null
Absent == "<absent>"         \* a subscriptionData field the document does not hold

\* !v for the values of request and event fields
Truthy(v) == v \notin {Undefined, Null, ""}

Slots == {"r1", "r2"}                 \* requests that may be in flight together
Users == {"u1"}                       \* ids of application users
DocIds == Users \cup {"pending"}      \* document ids a handler can be made to write
UserIdValues == Users \cup {"pending", Undefined}
SubIds == {"sub_1"}
OldSubIds == {"sub_0"}                \* a user's earlier subscription
Customers == {"cus_1"}
Plans == {"monthly", "yearly"}
ProviderStatuses == {"active", "past_due", "canceled", "unpaid", "trialing"}
EventTypes == {"checkout.session.completed", "invoice.payment_succeeded",
               "customer.subscription.updated", "customer.subscription.deleted",
               "invoice.payment_failed", "customer.created"}

\* process.env.STRIPE_WEBHOOK_SECRET
WebhookSecret == "whsec_live"

\* ---------------------------------------------------- period end, ISO date
\* A missing value is the empty sequence, a present value n is <<n>>.
Epochs == 1..MaxEpoch
ItemValues == {<<>>} \cup {<<n>> : n \in Epochs}
ItemLists == UNION {[1..n -> ItemValues] : n \in 0..MaxItems}
\* subscription.items: not there (<<>>) or <<data>>
ItemsObjects == {<<>>} \cup {<<d>> : d \in ItemLists}

Digit == <<"0", "1", "2", "3", "4", "5", "6", "7", "8", "9">>
Pad2(n) == Digit[(n \div 10) + 1] \o Digit[(n % 10) + 1]

\* new Date(periodEnd * 1000).toISOString(), for instants of 1970-01-01
ToISOString(e) ==
    "1970-01-01T" \o Pad2(e \div 3600) \o ":" \o Pad2((e % 3600) \div 60)
        \o ":" \o Pad2(e % 60) \o ".000Z"

\* .map(item => item.current_period_end).filter(Boolean)
RECURSIVE FilterBoolean(_)
FilterBoolean(data) ==
    IF data = <<>> THEN <<>>
    ELSE IF Head(data) # <<>> /\ Head(data)[1] # 0
         THEN <<Head(data)[1]>> \o FilterBoolean(Tail(data))
         ELSE FilterBoolean(Tail(data))

MathMinFirst(ends) == ends[1]

\* Math.min(...ends) for a non-empty ends
RECURSIVE MathMin(_)
MathMin(ends) ==
    IF Len(ends) = 1 THEN ends[1]
    ELSE LET m == MathMin(Tail(ends)) IN IF ends[1] < m THEN ends[1] ELSE m

\* let periodEnd = null; if (items && items.data && items.data.length > 0) ...
PeriodEnd(items) ==
    IF items # <<>> /\ Len(items[1]) > 0
    THEN LET ends == FilterBoolean(items[1])
         IN IF Len(ends) > 0 THEN <<MathMin(ends)>> ELSE <<>>
    ELSE <<>>

\* return periodEnd ? new Date(periodEnd * 1000).toISOString() : null
SubscriptionEndDate(items) ==
    LET periodEnd == PeriodEnd(items)
    IN IF periodEnd # <<>> /\ periodEnd[1] # 0 THEN ToISOString(periodEnd[1]) ELSE Null

\* ---------------------------------------------------------- status table
StatusMapPastDueActive(status) ==
    CASE status \in {"active", "past_due"} -> "active"
      [] status = "canceled" -> "cancelled"
      [] OTHER -> "expired"

\* statusMap[updatedSub.status] || 'expired'
StatusMap(status) ==
    CASE status = "active" -> "active"
      [] status = "past_due" -> "expired"
      [] status = "canceled" -> "cancelled"
      [] status = "unpaid" -> "expired"
      [] OTHER -> "expired"

\* ------------------------------------------------------ subscriptionData
Fields == {"status", "plan", "customerId", "subscriptionId", "subscriptionEndDate"}
NoSubscriptionData == [f \in Fields |-> Absent]

\* the object literal a caller passes to updateUserSubscription; fields it
\* does not name are Absent
Delta(status, endDate) ==
    [NoSubscriptionData EXCEPT !.status = status, !.subscriptionEndDate = endDate]
CheckoutDeltaSwapped(plan, customer, subscription, endDate) ==
    [status |-> "active", plan |-> plan, customerId |-> subscription,
     subscriptionId |-> customer, subscriptionEndDate |-> endDate]

\* the object literal of the checkout.session.completed branch
CheckoutDelta(plan, customer, subscription, endDate) ==
    [status |-> "active", plan |-> plan, customerId |-> customer,
     subscriptionId |-> subscription, subscriptionEndDate |-> endDate]

FailedDeltaKeepsStatus(endDate) == [NoSubscriptionData EXCEPT !.subscriptionEndDate = endDate]

\* { status: 'expired', subscriptionEndDate: ... } of the payment_failed branch
FailedDelta(endDate) == Delta("expired", endDate)

\* { status: 'cancelled', subscriptionEndDate: null } of the deleted branch
DeletedDelta == Delta("cancelled", Null)
\* { status: 'cancelled', subscriptionEndDate: null } of cancel-subscription
CancelDelta == Delta("cancelled", Null)

UpdateFieldCreateOnly(old, delta) == IF old = NoSubscriptionData THEN delta ELSE old

\* userRef.update({ subscriptionData: subscriptionData }, ...): update() sets
\* the named top-level field to the given value; the second argument of
\* update() is a precondition, where { merge: true } names no condition.
UpdateField(old, delta) == delta

VARIABLES
    records,     \* families/<id>.subscriptionData, per document id
    slots,       \* the requests in flight, per slot
    out,         \* the request that was answered last, as it ended
                 \* (IdleSlot once a later request is waiting)
    lastWrite,   \* per document: the request whose write was applied last
    calc         \* the period-end derivation on its own: its input and the
                 \* results of the branches that have run on it

vars == <<records, slots, out, lastWrite, calc>>

\* The stripe-signature header: the key the sender signed with, and whether
\* the signed payload is the body that arrived.
ValidSignature == [key |-> WebhookSecret, intact |-> TRUE]
Signatures ==
    {ValidSignature, [key |-> "whsec_forged", intact |-> TRUE],
     [key |-> WebhookSecret, intact |-> FALSE]}

\* What verify-payment and restore-subscription have learnt from the provider:
\* whether a customer and an active subscription were listed, and for
\* verify-payment the subscription's current_period_end and the time it is
\* compared with (0 while not read).
NoLookup == [customer |-> FALSE, subscription |-> FALSE, periodEnd |-> 0, now |-> 0]

\* What a webhook request has read so far of the checkout session it is
\* about (metadata.plan, customer, subscription) and of the subscription it
\* retrieved (items).
NoInput == [plan |-> Undefined, customer |-> Null, subscription |-> Null, items |-> <<>>]

\* A request: its route, what it read from its input, where it stands (pc),
\* what it has done so far and what it has answered.
IdleSlot ==
    [route |-> "idle", type |-> "none", pc |-> "idle", sig |-> ValidSignature,
     userId |-> Undefined, subId |-> Undefined, pstatus |-> "none",
     delta |-> NoSubscriptionData, called |-> FALSE, failed |-> FALSE,
     wstate |-> "none", responses |-> <<>>, email |-> Undefined,
     lookup |-> NoLookup, input |-> NoInput]

\* no derivation has run
NoCalc ==
    [items |-> <<>>, checkout |-> Undefined, updated |-> Undefined,
     failed |-> Undefined, restore |-> Undefined]

NoWrite ==
    [slot |-> "none", type |-> "none", pstatus |-> "none", run |-> 0,
     first |-> NoSubscriptionData]

Init ==
    /\ records = [d \in DocIds |-> NoSubscriptionData]
    /\ slots = [s \in Slots |-> IdleSlot]
    /\ out = IdleSlot
    /\ lastWrite = [d \in DocIds |-> NoWrite]
    /\ calc = NoCalc

\* res.status(code).json(...) / res.json(...) / res.send(...): the request ends
Send(slot, code, body) ==
    [slot EXCEPT !.pc = "done", !.pstatus = "none", !.delta = NoSubscriptionData,
                 !.input = NoInput,
                 !.responses = Append(@, [status |-> code, body |-> body])]

\* slot s continues as r: it waits at its next await, or it has answered.
\* The answer sent last is kept until a request that arrives has to wait.
Continue(s, r) ==
    IF r.pc = "done"
    THEN /\ out' = r
         /\ slots' = [slots EXCEPT ![s] = IdleSlot]
    ELSE /\ slots' = [slots EXCEPT ![s] = r]
         /\ out' = IF slots[s].pc = "idle" THEN IdleSlot ELSE out

\* -------------------------------------------------------------- webhook
SignatureVerifiesAlways(sig, secret) == TRUE

\* stripe.webhooks.constructEvent(req.body, sig, secret) returns the event
\* when the signature verifies and throws otherwise
SignatureVerifies(sig, secret) == sig.key = secret /\ sig.intact

\* event.data.object, by event type; hasMetadata is "metadata is an object"
NoObject ==
    [hasMetadata |-> FALSE, userId |-> Undefined, subscription |-> Null,
     status |-> "none", items |-> <<>>, plan |-> Undefined, customer |-> Null,
     id |-> Undefined]
MetadataValues ==
    {[hasMetadata |-> FALSE, userId |-> Undefined]}
        \cup {[hasMetadata |-> TRUE, userId |-> u] : u \in UserIdValues}
SessionObjects ==
    {[NoObject EXCEPT !.hasMetadata = m.hasMetadata, !.userId = m.userId, !.plan = p,
                      !.subscription = sub, !.customer = c] :
        m \in MetadataValues, p \in Plans, sub \in SubIds \cup {Null}, c \in Customers}
InvoiceObjects ==
    {[NoObject EXCEPT !.subscription = sub] : sub \in SubIds \cup OldSubIds \cup {Null}}
CurrentSubscriptionObjects ==
    {[NoObject EXCEPT !.hasMetadata = m.hasMetadata, !.userId = m.userId,
                      !.status = st, !.items = it, !.id = sub] :
        m \in MetadataValues, st \in ProviderStatuses, it \in ItemsObjects,
        sub \in SubIds}
\* the user's earlier subscription, as its own events carry it
OldSubscriptionObjects ==
    {[o EXCEPT !.id = sub] :
        o \in {c \in CurrentSubscriptionObjects :
                  c.hasMetadata /\ c.userId \in Users /\ c.items = <<>>},
        sub \in OldSubIds}
SubscriptionObjects == CurrentSubscriptionObjects \cup OldSubscriptionObjects
\* the subscription of a deleted event is a canceled one; the branch reads
\* its metadata only, so its items are left out
DeletedObjects == {o \in SubscriptionObjects : o.status = "canceled" /\ o.items = <<>>}
ObjectsOf(type) ==
    CASE type = "checkout.session.completed" -> SessionObjects
      [] type \in {"invoice.payment_succeeded", "invoice.payment_failed"} -> InvoiceObjects
      [] type = "customer.subscription.updated" -> SubscriptionObjects
      [] type = "customer.subscription.deleted" -> DeletedObjects
      [] OTHER -> {NoObject}

\* metadata.userId as the handler reads it
MetaUserId(obj) == IF obj.hasMetadata THEN obj.userId ELSE Undefined

\* the id of the subscription an event is about: the subscription object's
\* own id, or the subscription a session or an invoice names
EventSubscription(type, obj) ==
    IF type \in {"customer.subscription.updated", "customer.subscription.deleted"}
    THEN obj.id
    ELSE IF Truthy(obj.subscription) THEN obj.subscription ELSE Undefined

\* updateUserSubscription(userId, subscriptionData) up to its await:
\* if (!userId) return; otherwise userRef.update(...) is awaited
UpdateUserSubscription(slot, userId, delta, pstatus) ==
    IF ~Truthy(userId) THEN Send(slot, 200, "received")
    ELSE [slot EXCEPT !.pc = "write", !.userId = userId, !.delta = delta,
                      !.pstatus = pstatus]

CheckoutAppliesToPending(session) ==
    Truthy(session.subscription) /\ session.hasMetadata

\* if (session.subscription && session.metadata && session.metadata.userId !== 'pending')
CheckoutApplies(session) ==
    Truthy(session.subscription) /\ session.hasMetadata /\ session.userId # "pending"

\* The handler from its entry to its first await, or to its response when it
\* awaits nothing.
WebhookEntry(type, obj, sig) ==
    LET rejected == [IdleSlot EXCEPT !.route = "webhook", !.sig = sig]
        base == [rejected EXCEPT !.type = type, !.userId = MetaUserId(obj),
                                 !.subId = EventSubscription(type, obj)]
        ack == Send(base, 200, "received")
    IN
    IF ~SignatureVerifies(sig, WebhookSecret) THEN Send(rejected, 400, "Webhook Error")
    ELSE CASE type = "checkout.session.completed" ->
                IF CheckoutApplies(obj)
                THEN [base EXCEPT !.pc = "retrieve", !.called = TRUE,
                         !.input = [NoInput EXCEPT !.plan = obj.plan,
                                                   !.customer = obj.customer,
                                                   !.subscription = obj.subscription],
                         !.delta = CheckoutDelta(obj.plan, obj.customer, obj.subscription, Absent)]
                ELSE ack
           [] type = "invoice.payment_succeeded" ->
                IF Truthy(obj.subscription)
                THEN [base EXCEPT !.pc = "retrieve", !.called = TRUE]
                ELSE ack
           [] type = "customer.subscription.updated" ->
                IF obj.hasMetadata /\ Truthy(obj.userId) /\ obj.userId # "pending"
                THEN UpdateUserSubscription(base, obj.userId,
                        Delta(StatusMap(obj.status), SubscriptionEndDate(obj.items)),
                        obj.status)
                ELSE ack
           [] type = "customer.subscription.deleted" ->
                IF obj.hasMetadata /\ Truthy(obj.userId)
                THEN UpdateUserSubscription(base, obj.userId, DeletedDelta, "none")
                ELSE ack
           [] type = "invoice.payment_failed" ->
                IF Truthy(obj.subscription)
                THEN [base EXCEPT !.pc = "retrieve", !.called = TRUE]
                ELSE ack
           [] OTHER -> ack

\* the events a body can carry: <<event.type, event.data.object>>
Events == UNION {{<<type, obj>> : obj \in ObjectsOf(type)} : type \in EventTypes}

\* POST /api/webhook arrives with one of `events`, signed as one of `sigs`
Deliver(s, events, sigs) ==
    /\ slots[s].pc = "idle"
    /\ \E e \in events, sig \in sigs : Continue(s, WebhookEntry(e[1], e[2], sig))
    /\ UNCHANGED <<records, lastWrite, calc>>

\* Bodies sent with a signature that does not verify. The handler does not
\* parse such a body: one body per event type, and the checkout events that
\* would grant a user a subscription.
ForgedEvents ==
    {<<type, NoObject>> : type \in EventTypes}
        \cup {e \in Events : /\ e[1] = "checkout.session.completed"
                              /\ e[2].hasMetadata /\ e[2].userId \in Users
                              /\ e[2].subscription \in SubIds}

WebhookReceive(s) ==
    \/ Deliver(s, Events, {ValidSignature})
    \/ Deliver(s, ForgedEvents, Signatures \ {ValidSignature})

\* what stripe.subscriptions.retrieve resolves to: the subscription's
\* metadata.userId and items
RetrievedSubscriptions == [userId : UserIdValues, items : ItemsObjects]

\* The handler after stripe.subscriptions.retrieve resolved, to its next await
\* or its response.
AfterRetrieve(slot, sub) ==
    LET seen == [slot EXCEPT !.input.items = sub.items]
    IN
    CASE slot.type = "checkout.session.completed" ->
            UpdateUserSubscription(seen, slot.userId,
                [slot.delta EXCEPT !.subscriptionEndDate = SubscriptionEndDate(sub.items)],
                "none")
      [] slot.type = "invoice.payment_succeeded" ->
            [slot EXCEPT !.pc = "retrieveCustomer"]
      [] OTHER -> \* invoice.payment_failed
            IF Truthy(sub.userId)
            THEN UpdateUserSubscription(seen, sub.userId,
                    FailedDelta(SubscriptionEndDate(sub.items)), "none")
            ELSE Send(seen, 200, "received")

RetrieveOk(s) ==
    /\ slots[s].pc = "retrieve"
    /\ \E sub \in RetrievedSubscriptions : Continue(s, AfterRetrieve(slots[s], sub))
    /\ UNCHANGED <<records, lastWrite, calc>>

WebhookCatchAck(slot) == Send(slot, 200, "received")

\* catch (error) { res.status(500).json({ error: 'Webhook processing failed' }) }
WebhookCatch(slot) == Send(slot, 500, "Webhook processing failed")

\* stripe.subscriptions.retrieve rejects
RetrieveFail(s) ==
    /\ slots[s].pc = "retrieve"
    /\ Continue(s, WebhookCatch([slots[s] EXCEPT !.failed = TRUE]))
    /\ UNCHANGED <<records, lastWrite, calc>>

\* stripe.customers.retrieve resolves: the payment is only logged
RetrieveCustomerOk(s) ==
    /\ slots[s].pc = "retrieveCustomer"
    /\ Continue(s, Send(slots[s], 200, "received"))
    /\ UNCHANGED <<records, lastWrite, calc>>

RetrieveCustomerFail(s) ==
    /\ slots[s].pc = "retrieveCustomer"
    /\ Continue(s, WebhookCatch([slots[s] EXCEPT !.failed = TRUE]))
    /\ UNCHANGED <<records, lastWrite, calc>>

\* ---------------------------------------------------- cancel-subscription
MissingUserIdOnly(userId, subscriptionId) == ~Truthy(userId)

\* if (!userId || !subscriptionId)
MissingInput(userId, subscriptionId) == ~Truthy(userId) \/ ~Truthy(subscriptionId)

\* const { userId, subscriptionId } = req.body, to the first await
CancelEntry(userId, subscriptionId) ==
    LET base == [IdleSlot EXCEPT !.route = "cancel", !.type = "cancel",
                                 !.userId = userId, !.subId = subscriptionId]
    IN IF MissingInput(userId, subscriptionId)
       THEN Send(base, 400, "Missing userId or subscriptionId")
       ELSE [base EXCEPT !.pc = "cancel", !.called = TRUE]

\* POST /api/cancel-subscription arrives with one of `bodies`
Cancel(s, bodies) ==
    /\ slots[s].pc = "idle"
    /\ \E body \in bodies : Continue(s, CancelEntry(body.userId, body.subscriptionId))
    /\ UNCHANGED <<records, lastWrite, calc>>

CancelBodies ==
    [userId : Users \cup {Undefined, ""}, subscriptionId : SubIds \cup {Undefined, ""}]

CancelReceive(s) == Cancel(s, CancelBodies)

AfterCancelNoUpdate(slot) == Send(slot, 200, "success")

\* stripe.subscriptions.cancel resolved: call updateUserSubscription
AfterCancel(slot) == UpdateUserSubscription(slot, slot.userId, CancelDelta, "none")

ProviderCancelOk(s) ==
    /\ slots[s].pc = "cancel"
    /\ Continue(s, AfterCancel(slots[s]))
    /\ UNCHANGED <<records, lastWrite, calc>>

\* catch (error) { res.status(500).json({ error: 'Failed to cancel subscription' }) }
CancelCatch(slot) == Send(slot, 500, "Failed to cancel subscription")

AfterCancelFailIgnored(slot) == AfterCancel(slot)

\* stripe.subscriptions.cancel rejected: control passes to the catch
AfterCancelFail(slot) == CancelCatch(slot)

ProviderCancelFail(s) ==
    /\ slots[s].pc = "cancel"
    /\ Continue(s, AfterCancelFail([slots[s] EXCEPT !.failed = TRUE]))
    /\ UNCHANGED <<records, lastWrite, calc>>

\* ------------------------------------------------ updateUserSubscription
Min2(a, b) == IF a < b THEN a ELSE b

\* the note kept of an applied write: who wrote, how many deliveries of a
\* deleted event have been applied in a row, and the record as the first of
\* them left it
WriteNote(s, slot, old, written) ==
    LET replay == slot.type = "customer.subscription.deleted" /\ old.type = slot.type
    IN [slot |-> s, type |-> slot.type, pstatus |-> slot.pstatus,
        run |-> IF slot.type = "customer.subscription.deleted"
                THEN IF replay THEN Min2(old.run + 1, MaxReplay) ELSE 1
                ELSE 0,
        first |-> IF slot.type = "customer.subscription.deleted"
                  THEN IF replay THEN old.first ELSE written
                  ELSE NoSubscriptionData]

\* await userRef.update(...) resolved: the store has applied the write, and
\* updateUserSubscription returns
StoreWriteOk(s) ==
    /\ slots[s].pc = "write"
    /\ LET slot == slots[s]
           u == slot.userId
       IN /\ records' = [records EXCEPT ![u] = UpdateField(@, slot.delta)]
          /\ lastWrite' = [lastWrite EXCEPT ![u] =
                              WriteNote(s, slot, @, UpdateField(records[u], slot.delta))]
          /\ slots' = [slots EXCEPT ![s] = [slot EXCEPT !.pc = "respond", !.wstate = "ok",
                                               !.pstatus = "none",
                                               !.delta = NoSubscriptionData]]
    /\ UNCHANGED <<out, calc>>

AfterWriteFailRethrown(slot) ==
    IF slot.route = "webhook"
    THEN WebhookCatch([slot EXCEPT !.wstate = "failed"])
    ELSE CancelCatch([slot EXCEPT !.wstate = "failed"])

\* catch (error) { console.error(...) }: updateUserSubscription returns
AfterWriteFail(slot) ==
    [slot EXCEPT !.pc = "respond", !.wstate = "failed", !.pstatus = "none",
                 !.delta = NoSubscriptionData]

\* await userRef.update(...) rejected: the store has applied nothing
StoreWriteFail(s) ==
    /\ slots[s].pc = "write"
    /\ Continue(s, AfterWriteFail(slots[s]))
    /\ UNCHANGED <<records, lastWrite, calc>>

\* updateUserSubscription returned to its caller, which answers:
\* res.json({ received: true }) / res.json({ success: true, canceled })
AfterUpdate(slot) ==
    IF slot.route = "webhook" THEN Send(slot, 200, "received")
    ELSE Send(slot, 200, "success")

Respond(s) ==
    /\ slots[s].pc = "respond"
    /\ Continue(s, AfterUpdate(slots[s]))
    /\ UNCHANGED <<records, lastWrite, calc>>

\* ------------------------------------------------ create-checkout-session
\* metadata: { userId: userId || 'pending', ... }
SessionUserId(userId) == IF Truthy(userId) THEN userId ELSE "pending"

CreateCheckoutEntryWrites(userId) ==
    [IdleSlot EXCEPT !.route = "create-checkout-session", !.type = "create",
                     !.userId = SessionUserId(userId), !.pc = "write",
                     !.delta = Delta("active", Null), !.called = TRUE]

\* const { plan, userId, ... } = req.body, to await stripe.checkout.sessions.create;
\* the other body fields only go into the session config
CreateCheckoutEntry(userId) ==
    [IdleSlot EXCEPT !.route = "create-checkout-session", !.type = "create",
                     !.userId = SessionUserId(userId), !.pc = "createSession",
                     !.called = TRUE]

CreateCheckoutReceive(s) ==
    /\ slots[s].pc = "idle"
    /\ \E userId \in Users \cup {Undefined} : Continue(s, CreateCheckoutEntry(userId))
    /\ UNCHANGED <<records, lastWrite, calc>>

\* res.json({ id: session.id })
CreateSessionOk(s) ==
    /\ slots[s].pc = "createSession"
    /\ Continue(s, Send(slots[s], 200, "id"))
    /\ UNCHANGED <<records, lastWrite, calc>>

\* catch (error) { res.status(500).json({ error: 'Failed to create checkout session' }) }
CreateSessionFail(s) ==
    /\ slots[s].pc = "createSession"
    /\ Continue(s, Send([slots[s] EXCEPT !.failed = TRUE], 500,
                        "Failed to create checkout session"))
    /\ UNCHANGED <<records, lastWrite, calc>>

\* --------------------------------------------------------- verify-payment
Emails == {"parent@example.com"}
\* Math.floor(Date.now() / 1000)
Times == 1..(MaxEpoch + 1)

\* if (!email) return res.status(400)...; else await stripe.customers.list
VerifyEntry(email) ==
    LET base == [IdleSlot EXCEPT !.route = "verify-payment", !.type = "verify",
                                 !.email = email]
    IN IF ~Truthy(email) THEN Send(base, 400, "Email is required")
       ELSE [base EXCEPT !.pc = "verifyCustomers", !.called = TRUE]

VerifyReceive(s) ==
    /\ slots[s].pc = "idle"
    /\ \E email \in Emails \cup {Undefined, ""} : Continue(s, VerifyEntry(email))
    /\ UNCHANGED <<records, lastWrite, calc>>

\* customers.data.length === 0 ? { hasValidPayment: false } : list subscriptions
VerifyAfterCustomers(slot, found) ==
    IF ~found THEN Send(slot, 200, "hasValidPayment: false")
    ELSE [slot EXCEPT !.pc = "verifySubscriptions", !.lookup.customer = TRUE]

VerifyCustomersOk(s) ==
    /\ slots[s].pc = "verifyCustomers"
    /\ \E found \in BOOLEAN : Continue(s, VerifyAfterCustomers(slots[s], found))
    /\ UNCHANGED <<records, lastWrite, calc>>

ExpiredNever(periodEnd, now) == FALSE

\* subscription.current_period_end < now
Expired(periodEnd, now) == periodEnd < now

\* subscriptions is subscriptions.data: <<>> or one subscription's
\* current_period_end (the list is asked with status 'active', limit 1)
VerifyAfterSubscriptions(slot, subscriptions, now) ==
    IF Len(subscriptions) = 0 THEN Send(slot, 200, "hasValidPayment: false")
    ELSE LET seen == [slot EXCEPT !.lookup.subscription = TRUE,
                                  !.lookup.periodEnd = subscriptions[1],
                                  !.lookup.now = now]
         IN IF Expired(subscriptions[1], now)
            THEN Send(seen, 200, "hasValidPayment: false")
            ELSE Send(seen, 200, "hasValidPayment: true")

VerifySubscriptionsOk(s) ==
    /\ slots[s].pc = "verifySubscriptions"
    /\ \E subscriptions \in {<<>>} \cup {<<e>> : e \in Epochs}, now \in Times :
          Continue(s, VerifyAfterSubscriptions(slots[s], subscriptions, now))
    /\ UNCHANGED <<records, lastWrite, calc>>

\* catch (error) { res.status(500).json({ error: 'Failed to verify payment' }) }
VerifyFail(s) ==
    /\ slots[s].pc \in {"verifyCustomers", "verifySubscriptions"}
    /\ Continue(s, Send([slots[s] EXCEPT !.failed = TRUE], 500, "Failed to verify payment"))
    /\ UNCHANGED <<records, lastWrite, calc>>

\* --------------------------------------------------- restore-subscription
\* const { userId, email } = req.body, to await stripe.customers.list; the
\* body is not validated
RestoreEntry(email) ==
    [IdleSlot EXCEPT !.route = "restore-subscription", !.type = "restore",
                     !.email = email, !.pc = "restoreCustomers", !.called = TRUE]

RestoreReceive(s) ==
    /\ slots[s].pc = "idle"
    /\ \E email \in Emails \cup {Undefined} : Continue(s, RestoreEntry(email))
    /\ UNCHANGED <<records, lastWrite, calc>>

RestoreAfterCustomers(slot, found) ==
    IF ~found THEN Send(slot, 200, "subscription: null")
    ELSE [slot EXCEPT !.pc = "restoreSubscriptions", !.lookup.customer = TRUE]

RestoreCustomersOk(s) ==
    /\ slots[s].pc = "restoreCustomers"
    /\ \E found \in BOOLEAN : Continue(s, RestoreAfterCustomers(slots[s], found))
    /\ UNCHANGED <<records, lastWrite, calc>>

\* "Calculate correct period end" of restore-subscription
RestorePeriodEnd(items) ==
    IF items # <<>> /\ Len(items[1]) > 0
    THEN LET ends == FilterBoolean(items[1])
         IN IF Len(ends) > 0 THEN <<MathMin(ends)>> ELSE <<>>
    ELSE <<>>

\* const subscriptionEndDate = periodEnd ? new Date(periodEnd * 1000).toISOString() : null
RestoreEndDate(items) ==
    LET periodEnd == RestorePeriodEnd(items)
    IN IF periodEnd # <<>> /\ periodEnd[1] # 0 THEN ToISOString(periodEnd[1]) ELSE Null

\* plan === 'year' ? 'yearly' : 'monthly'
RestorePlan(interval) == IF interval = "year" THEN "yearly" ELSE "monthly"

\* the subscription object of the response, as text
RestoreBody(plan, endDate) == "subscription: " \o plan \o " " \o endDate

\* catch (error) { res.status(500).json({ error: 'Failed to check subscription' }) }
RestoreCatch(slot) ==
    Send([slot EXCEPT !.failed = TRUE], 500, "Failed to check subscription")

ListedSubscriptions == [interval : {"month", "year"}, items : ItemsObjects]

\* subscriptions.data is <<>> or one subscription;
\* subscription.items.data[0].price.recurring.interval throws a TypeError,
\* which the catch answers, when the subscription has no first item
RestoreAfterSubscriptions(slot, subscriptions) ==
    IF Len(subscriptions) = 0 THEN Send(slot, 200, "subscription: null")
    ELSE LET subscription == subscriptions[1]
             seen == [slot EXCEPT !.lookup.subscription = TRUE]
         IN IF subscription.items = <<>> \/ Len(subscription.items[1]) = 0
            THEN RestoreCatch(seen)
            ELSE Send(seen, 200, RestoreBody(RestorePlan(subscription.interval),
                                             RestoreEndDate(subscription.items)))

RestoreSubscriptionsOk(s) ==
    /\ slots[s].pc = "restoreSubscriptions"
    /\ \E subscriptions \in {<<>>} \cup {<<sub>> : sub \in ListedSubscriptions} :
          Continue(s, RestoreAfterSubscriptions(slots[s], subscriptions))
    /\ UNCHANGED <<records, lastWrite, calc>>

RestoreFail(s) ==
    /\ slots[s].pc \in {"restoreCustomers", "restoreSubscriptions"}
    /\ Continue(s, RestoreCatch(slots[s]))
    /\ UNCHANGED <<records, lastWrite, calc>>

\* ---------------------------------------------------------- specification
\* Requests handled one at a time, in any order and number.
Next ==
    \E s \in {"r1"} :
        \/ WebhookReceive(s)
        \/ RetrieveOk(s)
        \/ RetrieveFail(s)
        \/ RetrieveCustomerOk(s)
        \/ RetrieveCustomerFail(s)
        \/ CancelReceive(s)
        \/ ProviderCancelOk(s)
        \/ ProviderCancelFail(s)
        \/ StoreWriteOk(s)
        \/ StoreWriteFail(s)
        \/ Respond(s)
        \/ CreateCheckoutReceive(s)
        \/ CreateSessionOk(s)
        \/ CreateSessionFail(s)
        \/ VerifyReceive(s)
        \/ VerifyCustomersOk(s)
        \/ VerifySubscriptionsOk(s)
        \/ VerifyFail(s)
        \/ RestoreReceive(s)
        \/ RestoreCustomersOk(s)
        \/ RestoreSubscriptionsOk(s)
        \/ RestoreFail(s)

Spec == Init /\ [][Next]_vars

\* The cancellation race: well-formed cancel-subscription requests of a user
\* and the provider's verified events of that user's subscription (its
\* cancellation, and an update still saying active), two requests in flight
\* at a time.
RaceEvents ==
    {e \in Events :
        /\ e[1] \in {"customer.subscription.updated", "customer.subscription.deleted"}
        /\ e[2].hasMetadata /\ e[2].userId \in Users
        /\ e[2].status \in {"active", "canceled"}}

WebhookReceiveRace(s) == Deliver(s, RaceEvents, {ValidSignature})

CancelReceiveRace(s) == Cancel(s, [userId : Users, subscriptionId : SubIds])

NextRace ==
    \E s \in Slots :
        \/ WebhookReceiveRace(s)
        \/ CancelReceiveRace(s)
        \/ ProviderCancelOk(s)
        \/ ProviderCancelFail(s)
        \/ StoreWriteOk(s)
        \/ StoreWriteFail(s)
        \/ Respond(s)

SpecRace == Init /\ [][NextRace]_vars

\* The period-end derivation on its own: any items object of up to
\* MaxCalcItems items, and the four places that derive an end date from it,
\* each run once in any order.
CalcItemValues == {<<>>} \cup {<<n>> : n \in 1..MaxCalcEpoch}
CalcItemsObjects ==
    {<<>>} \cup {<<d>> : d \in UNION {[1..n -> CalcItemValues] : n \in 0..MaxCalcItems}}

InitCalc ==
    /\ records = [d \in DocIds |-> NoSubscriptionData]
    /\ slots = [s \in Slots |-> IdleSlot]
    /\ out = IdleSlot
    /\ lastWrite = [d \in DocIds |-> NoWrite]
    /\ \E items \in CalcItemsObjects : calc = [NoCalc EXCEPT !.items = items]

\* the IIFE of the checkout.session.completed branch
CalcCheckout ==
    /\ calc.checkout = Undefined
    /\ calc' = [calc EXCEPT !.checkout = SubscriptionEndDate(calc.items)]
    /\ UNCHANGED <<records, slots, out, lastWrite>>

\* the IIFE of the customer.subscription.updated branch
CalcUpdated ==
    /\ calc.updated = Undefined
    /\ calc' = [calc EXCEPT !.updated = SubscriptionEndDate(calc.items)]
    /\ UNCHANGED <<records, slots, out, lastWrite>>

\* the IIFE of the invoice.payment_failed branch
CalcFailed ==
    /\ calc.failed = Undefined
    /\ calc' = [calc EXCEPT !.failed = SubscriptionEndDate(calc.items)]
    /\ UNCHANGED <<records, slots, out, lastWrite>>

\* "Calculate correct period end" of restore-subscription
CalcRestore ==
    /\ calc.restore = Undefined
    /\ calc' = [calc EXCEPT !.restore = RestoreEndDate(calc.items)]
    /\ UNCHANGED <<records, slots, out, lastWrite>>

NextCalc == CalcCheckout \/ CalcUpdated \/ CalcFailed \/ CalcRestore

SpecCalc == InitCalc /\ [][NextCalc]_vars

\* =================================================================== claims
Verified(sig) == sig.key = WebhookSecret /\ sig.intact
Response(code, body) == <<[status |-> code, body |-> body]>>
IsCancelled(rec) == rec.status = "cancelled" /\ rec.subscriptionEndDate = Null

\* C1: a webhook delivery whose signature does not verify against the webhook
\* secret is answered with 400 and nothing else happens for it: the event is
\* never read, no provider call is made and no store write is attempted.
C1_BadSignatureRejected ==
    (out.route = "webhook" /\ ~Verified(out.sig)) =>
        /\ out.responses = Response(400, "Webhook Error")
        /\ out.type = "none"
        /\ ~out.called
        /\ out.wstate = "none"

\* a forged delivery was answered while the store already held a record
C1_Witness ==
    /\ out.route = "webhook" /\ ~Verified(out.sig)
    /\ out.responses = Response(400, "Webhook Error")
    /\ records["u1"].status = "active"

\* C2: every record whose status is 'cancelled' has subscriptionEndDate null.
C2_CancelledHasNoEndDate ==
    \A d \in DocIds :
        records[d].status = "cancelled" => records[d].subscriptionEndDate = Null

\* C3: a verified delivery gets exactly one response: 500 when a provider
\* retrieval inside the switch failed, { received: true } otherwise.
C3_AckUnlessSwitchThrows ==
    (out.route = "webhook" /\ Verified(out.sig)) =>
        /\ Len(out.responses) = 1
        /\ out.failed => out.responses = Response(500, "Webhook processing failed")
        /\ ~out.failed => out.responses = Response(200, "received")

\* a verified delivery whose subscription retrieval failed was answered 500
C3_Witness ==
    /\ out.route = "webhook" /\ Verified(out.sig) /\ out.failed
    /\ out.responses = Response(500, "Webhook processing failed")

\* C4: a failed store write is swallowed: the store is left as it was, the
\* webhook still answers { received: true } and cancel-subscription still
\* answers with its success result.
C4_WriteFailureSwallowed ==
    /\ [](out.wstate = "failed" =>
            /\ out.route = "webhook" => out.responses = Response(200, "received")
            /\ out.route = "cancel" => out.responses = Response(200, "success"))
    /\ [][\A s \in Slots :
            (slots[s].pc = "write" /\ slots'[s] # slots[s] /\ slots'[s].wstate # "ok")
                => records' = records]_vars

\* cancel-subscription answered success although its write failed and the
\* record still says active
C4_Witness ==
    /\ out.route = "cancel" /\ out.wstate = "failed"
    /\ out.responses = Response(200, "success")
    /\ records["u1"].status = "active"

\* the fixed table of the subscription-updated branch, as the claim states it
C5_Table(status) ==
    IF status = "active" THEN "active"
    ELSE IF status = "past_due" THEN "expired"
    ELSE IF status = "canceled" THEN "cancelled"
    ELSE IF status = "unpaid" THEN "expired"
    ELSE "expired"

\* C5: a verified customer.subscription.updated event with a real userId
\* writes the table's status to that user's record; without a userId, or with
\* 'pending', it attempts no write.
C5_UpdatedWritesMappedStatus ==
    /\ \A s \in Slots :
          (slots[s].type = "customer.subscription.updated" /\ slots[s].pc = "write") =>
              /\ slots[s].userId \in Users
              /\ slots[s].delta.status = C5_Table(slots[s].pstatus)
    /\ \A d \in DocIds :
          lastWrite[d].type = "customer.subscription.updated" =>
              /\ d \in Users
              /\ records[d].status = C5_Table(lastWrite[d].pstatus)
    /\ out.type = "customer.subscription.updated" =>
          /\ out.userId \in {Undefined, "pending"} => out.wstate = "none"
          /\ out.userId \in Users => out.wstate \in {"ok", "failed"}

\* an update with a status outside the table has been written as expired
C5_Witness ==
    /\ lastWrite["u1"].type = "customer.subscription.updated"
    /\ lastWrite["u1"].pstatus = "trialing"
    /\ records["u1"].status = "expired"

\* C6, as stated: whenever cancel-subscription answers success, the user's
\* record holds 'cancelled' and a null end date when the response is sent.
C6_SuccessImpliesCancelled ==
    [][\A s \in Slots :
          (slots[s].route = "cancel" /\ slots[s].pc = "respond" /\ slots'[s].pc = "idle")
              => IsCancelled(records[slots[s].userId])]_vars

\* C6, amended: a success answer of cancel-subscription comes after the
\* provider call and after updateUserSubscription returned; while the request
\* waits to answer, its record is cancelled with a null end date provided the
\* write was applied and no other request has written that record since.
C6_SuccessAfterUpdate ==
    /\ (out.route = "cancel" /\ out.responses = Response(200, "success")) =>
          out.called /\ out.wstate \in {"ok", "failed"}
    /\ \A s \in Slots :
          (/\ slots[s].route = "cancel" /\ slots[s].pc = "respond"
           /\ slots[s].wstate = "ok" /\ lastWrite[slots[s].userId].slot = s)
              => IsCancelled(records[slots[s].userId])

\* a cancel request is about to answer success after its applied write, while
\* another request is in flight
C6_Witness ==
    \E s, r \in Slots :
        /\ s # r
        /\ slots[s].route = "cancel" /\ slots[s].pc = "respond" /\ slots[s].wstate = "ok"
        /\ lastWrite[slots[s].userId].slot = s
        /\ slots[r].pc = "write"
        /\ IsCancelled(records[slots[s].userId])

\* C7: when the provider's cancellation fails the caller gets 500 and no write
\* is attempted; a cancel request writes only after the provider call it made
\* has succeeded.
C7_ProviderFailureNoWrite ==
    /\ (out.route = "cancel" /\ out.failed) =>
          /\ out.responses = Response(500, "Failed to cancel subscription")
          /\ out.wstate = "none"
    /\ \A s \in Slots :
          (slots[s].route = "cancel" /\ slots[s].pc \in {"write", "respond"}) =>
              slots[s].called /\ ~slots[s].failed

\* the provider refused a cancellation and the record still says active
C7_Witness ==
    /\ out.route = "cancel" /\ out.failed
    /\ out.responses = Response(500, "Failed to cancel subscription")
    /\ records["u1"].status = "active"

\* C8: a cancel-subscription request without userId or without subscriptionId
\* is answered 400, with no provider call and no store write.
C8_MissingInputRejected ==
    (out.route = "cancel" /\ (out.userId \notin Users \/ out.subId \notin SubIds)) =>
        /\ out.responses = Response(400, "Missing userId or subscriptionId")
        /\ ~out.called
        /\ out.wstate = "none"

\* a request naming a user but no subscription was rejected
C8_Witness ==
    /\ out.route = "cancel" /\ out.userId = "u1" /\ out.subId = Undefined
    /\ out.responses = Response(400, "Missing userId or subscriptionId")

\* Is the applied write a cancellation: cancel-subscription's own write, or the
\* webhook's confirmation (a deleted event, or an update to status canceled)?
C9_IsCancellation(note) ==
    \/ note.type \in {"cancel", "customer.subscription.deleted"}
    \/ note.type = "customer.subscription.updated" /\ note.pstatus = "canceled"

\* C9: whichever of the cancellation's writes is applied last, and however
\* often they are repeated, the record ends cancelled with a null end date.
C9_CancellationWritesConverge ==
    \A d \in DocIds :
        C9_IsCancellation(lastWrite[d]) => IsCancelled(records[d])

\* C10: after any number of deliveries of a customer.subscription.deleted
\* event, from any record, the record is what the first delivery left:
\* cancelled with a null end date.
C10_DeletedIdempotent ==
    \A d \in DocIds :
        lastWrite[d].run >= 1 =>
            /\ records[d] = lastWrite[d].first
            /\ IsCancelled(records[d])

\* the event has been applied MaxReplay times in a row
C10_Witness ==
    /\ lastWrite["u1"].run = MaxReplay
    /\ IsCancelled(records["u1"])

\* C11: every applied write of updateUserSubscription is a merge: a
\* subscriptionData field the delta does not name keeps the value the record
\* held before the write.
C11_WriteIsMerge ==
    [][\A s \in Slots :
          (slots[s].pc = "write" /\ slots'[s].pc = "respond" /\ slots'[s].wstate = "ok")
              => \A f \in Fields :
                    slots[s].delta[f] = Absent =>
                        records'[slots[s].userId][f] = records[slots[s].userId][f]]_vars

\* the requests that reach updateUserSubscription's write: a cancel-subscription
\* whose provider call succeeded, and a verified webhook event of one of the
\* four kinds that update a record
C12_Writer(slot) ==
    \/ slot.route = "cancel" /\ slot.called /\ ~slot.failed
    \/ /\ slot.route = "webhook" /\ Verified(slot.sig)
       /\ slot.type \in {"checkout.session.completed", "customer.subscription.updated",
                         "customer.subscription.deleted", "invoice.payment_failed"}

\* C12: a record changes only in the step that applies the write of a
\* successful cancel-subscription or of a verified checkout.session.completed,
\* customer.subscription.updated, customer.subscription.deleted or
\* invoice.payment_failed event; create-checkout-session, verify-payment,
\* restore-subscription, invoice.payment_succeeded and every other event kind
\* never write.
C12_OnlyWritersMutate ==
    /\ [](/\ \A d \in DocIds :
               /\ lastWrite[d].type \in
                     {"none", "cancel", "checkout.session.completed",
                      "customer.subscription.updated", "customer.subscription.deleted",
                      "invoice.payment_failed"}
               /\ records[d] # NoSubscriptionData => lastWrite[d].type # "none"
          /\ (out.route \in {"create-checkout-session", "verify-payment",
                             "restore-subscription"}
              \/ out.type \in {"invoice.payment_succeeded", "customer.created"})
                => out.wstate = "none"
          /\ \A s \in Slots : slots[s].pc = "write" => C12_Writer(slots[s]))
    /\ [][records' # records =>
            \E s \in Slots :
                /\ slots[s].pc = "write" /\ C12_Writer(slots[s])
                /\ slots'[s].pc = "respond" /\ slots'[s].wstate = "ok"
                /\ \A d \in DocIds \ {slots[s].userId} : records'[d] = records[d]]_vars

\* restore-subscription has reported an active subscription while the user's
\* record, which it did not touch, says expired
C12_Witness ==
    /\ out.route = "restore-subscription" /\ out.lookup.subscription /\ ~out.failed
    /\ records["u1"].status = "expired"
    /\ lastWrite["u1"].type = "invoice.payment_failed"

\* the current_period_end values that are there in items.data
PresentEnds(items) ==
    IF items = <<>> THEN {}
    ELSE {items[1][i][1] : i \in {j \in DOMAIN items[1] : items[1][j] # <<>>}}

\* the end date the claims name: the ISO date of the least value that is
\* there, null when there is none
EarliestEndDate(items) ==
    LET ends == PresentEnds(items)
    IN IF ends = {} THEN Null
       ELSE ToISOString(CHOOSE m \in ends : \A e \in ends : m <= e)

\* the record C13 names, for what the request read of the session and of the
\* subscription it retrieved
C13_Record(input) ==
    [status |-> "active", plan |-> input.plan, customerId |-> input.customer,
     subscriptionId |-> input.subscription,
     subscriptionEndDate |-> EarliestEndDate(input.items)]

\* C13: a verified checkout.session.completed event with a subscription and a
\* real metadata.userId writes, to that user's record and to no other, status
\* 'active' with the session's plan, customer and subscription and the end
\* date of the retrieved subscription's items.
C13_CheckoutActivates ==
    /\ [](\A s \in Slots :
            slots[s].type = "checkout.session.completed" =>
                /\ slots[s].pc = "write" =>
                      /\ slots[s].userId \in Users
                      /\ slots[s].delta = C13_Record(slots[s].input)
                /\ (/\ slots[s].pc = "respond" /\ slots[s].wstate = "ok"
                    /\ lastWrite[slots[s].userId].slot = s)
                      => records[slots[s].userId] = C13_Record(slots[s].input))
    /\ [][\A s \in Slots :
            (/\ slots[s].type = "checkout.session.completed"
             /\ slots[s].pc = "write" /\ slots'[s].pc = "respond")
                => \A d \in DocIds \ {slots[s].userId} : records'[d] = records[d]]_vars

\* a yearly checkout has been applied to u1, with the end date of the
\* retrieved item, while another document holds a record
C13_Witness ==
    \E s \in Slots :
        /\ slots[s].type = "checkout.session.completed"
        /\ slots[s].pc = "respond" /\ slots[s].wstate = "ok"
        /\ records["u1"] = CheckoutDelta("yearly", "cus_1", "sub_1", ToISOString(1))
        /\ records["pending"] # NoSubscriptionData

C15_EarliestPeriodEnd ==
    \A branch \in {"checkout", "updated", "failed", "restore"} :
        calc[branch] # Undefined => calc[branch] = EarliestEndDate(calc.items)

\* items with period ends 3, 2 and a missing one: all four places have
\* produced the date of 2
C15_Witness ==
    /\ calc.items = << << <<3>>, <<2>>, <<>> >> >>
    /\ \A branch \in {"checkout", "updated", "failed", "restore"} :
          calc[branch] = ToISOString(2)

\* C16: verify-payment answers 400, before any provider call, when the
\* request has no email; it answers hasValidPayment false when no customer is
\* listed, when no active subscription is listed, and when the listed
\* subscription's current_period_end is earlier than now; it answers true
\* only when a customer and an active subscription were listed and the period
\* end is not earlier than now.
C16_VerifyPayment ==
    out.route = "verify-payment" =>
        /\ ~Truthy(out.email) =>
              out.responses = Response(400, "Email is required") /\ ~out.called
        /\ (Truthy(out.email) /\ ~out.failed) =>
              /\ out.called
              /\ ~out.lookup.customer =>
                    out.responses = Response(200, "hasValidPayment: false")
              /\ ~out.lookup.subscription =>
                    out.responses = Response(200, "hasValidPayment: false")
              /\ (out.lookup.subscription /\ out.lookup.periodEnd < out.lookup.now) =>
                    out.responses = Response(200, "hasValidPayment: false")
        /\ out.responses = Response(200, "hasValidPayment: true") <=>
              /\ Truthy(out.email) /\ ~out.failed
              /\ out.lookup.customer /\ out.lookup.subscription
              /\ out.lookup.periodEnd >= out.lookup.now
        /\ Len(out.responses) = 1

\* an active subscription whose period ended at 1 was listed at time 2: the
\* answer is false
C16_Witness ==
    /\ out.route = "verify-payment"
    /\ out.lookup.customer /\ out.lookup.subscription
    /\ out.lookup.periodEnd = 1 /\ out.lookup.now = 2
    /\ out.responses = Response(200, "hasValidPayment: false")

\* C17: a verified invoice.payment_failed event whose invoice names a
\* subscription, and whose retrieved subscription carries a metadata.userId,
\* writes status 'expired' and the end date of the retrieved items to that
\* user's record; when the invoice names no subscription, or the subscription
\* carries no metadata.userId, no write is attempted.
C17_PaymentFailedExpires ==
    /\ \A s \in Slots :
          slots[s].type = "invoice.payment_failed" =>
              /\ slots[s].pc = "write" =>
                    /\ Truthy(slots[s].userId) /\ slots[s].called
                    /\ slots[s].delta.status = "expired"
                    /\ slots[s].delta.subscriptionEndDate =
                          EarliestEndDate(slots[s].input.items)
              /\ (/\ slots[s].pc = "respond" /\ slots[s].wstate = "ok"
                  /\ lastWrite[slots[s].userId].slot = s)
                    => /\ records[slots[s].userId].status = "expired"
                       /\ records[slots[s].userId].subscriptionEndDate =
                             EarliestEndDate(slots[s].input.items)
    /\ (out.type = "invoice.payment_failed" /\ Verified(out.sig)) =>
          /\ ~out.called => out.wstate = "none"
          /\ ~Truthy(out.userId) => out.wstate = "none"
          /\ (Truthy(out.userId) /\ ~out.failed) => out.wstate \in {"ok", "failed"}

\* a failed payment has been applied to the record of u1: it is expired,
\* with the end date of the retrieved item
C17_Witness ==
    \E s \in Slots :
        /\ slots[s].type = "invoice.payment_failed"
        /\ slots[s].pc = "respond" /\ slots[s].wstate = "ok"
        /\ slots[s].userId = "u1"
        /\ slots[s].input.items = << << <<1>> >> >>
        /\ records["u1"].status = "expired"
        /\ records["u1"].subscriptionEndDate = ToISOString(1)

\* C18: once a record is 'cancelled', the only write that changes its status
\* is that of a checkout.session.completed event; an updated or
\* payment_failed event delivered late leaves it cancelled.
C18_CancelledIsSticky ==
    [][\A d \in DocIds :
          (records[d].status = "cancelled" /\ records'[d].status # "cancelled") =>
              \E s \in Slots :
                  /\ slots[s].pc = "write" /\ slots[s].userId = d
                  /\ slots[s].type = "checkout.session.completed"]_vars

\* C19: no webhook event makes the handler write the record keyed 'pending':
\* no webhook request reaches the store write with userId 'pending', and that
\* record is never written.
C19_PendingNeverWritten ==
    /\ \A s \in Slots :
          (slots[s].route = "webhook" /\ slots[s].pc = "write") =>
              slots[s].userId # "pending"
    /\ records["pending"] = NoSubscriptionData
    /\ lastWrite["pending"].type = "none"

\* C20: the write of an updated, deleted or payment_failed event about a
\* subscription other than the one whose id the user's record holds leaves
\* that record as it is.
C20_OtherSubscriptionIgnored ==
    [][\A s \in Slots :
          (/\ slots[s].pc = "write" /\ slots'[s].pc = "respond"
           /\ slots[s].type \in {"customer.subscription.updated",
                                 "customer.subscription.deleted",
                                 "invoice.payment_failed"}
           /\ records[slots[s].userId].subscriptionId \in SubIds \cup OldSubIds
           /\ slots[s].subId # records[slots[s].userId].subscriptionId)
              => records'[slots[s].userId] = records[slots[s].userId]]_vars

====
